---- MODULE Spec2Model ----
(***************************************************************************)
(* BatchTopNExecutor of components/tidb_query_executors/src/               *)
(* top_n_executor.rs: the pull-based Top-N operator, its heap of candidate *)
(* rows and the source it pulls batches from.                              *)
(*                                                                         *)
(* An Option<T> is a sequence of length 0 (None) or 1 (Some(v)).           *)
(* A batch's physical_columns is kept row-major: a sequence of rows, each  *)
(* row a sequence of NumCols optional values.                              *)
(* Result<BatchExecIsDrain> is one of "Remain", "Drain" (Ok) or an error   *)
(* name ("SrcError", "DecodeError", "EvalError", "CmpError").              *)
(***************************************************************************)
EXTENDS Integers, Sequences, FiniteSets, Bags, TLC

\* ------------------------------------------------------------------ bounds
\* Largest row limit N an executor is constructed with.
MaxN == 2
\* Largest configured paging size.
MaxPaging == 1
\* Number of next_batch calls the source answers in one behaviour.
MaxPulls == 2
\* Number of next_batch calls made on the executor in one behaviour.
MaxCalls == 3
\* Width of an integer datum. The program's is 64; the model keeps the
\* two's-complement reading at a width the checker's integers can hold.
IntBits == 8

\* ------------------------------------------------------------ input domains
None == <<>>
Some(v) == <<v>>

\* The rows a source batch is made of, over a schema of two integer columns:
\* NULL, a negative and a positive value in column 1, a tie on column 1.
RowN0 == <<None, Some(0)>>
RowM0 == <<Some(-1), Some(0)>>
RowP0 == <<Some(1), Some(0)>>
RowP1 == <<Some(1), Some(1)>>
Rows == {RowN0, RowM0, RowP0, RowP1}

\* The physical_columns of a source batch: no row, one row, or two rows.
PhysicalColumnss ==
    { <<>> } \cup { <<r>> : r \in Rows } \cup { <<RowP0, RowP1>>, <<RowN0, RowM0>> }

\* The ORDER BY lists: each key is a column reference, its descending flag and
\* the unsigned flag of its result field type.
OrderBys ==
    { << [col |-> 1, desc |-> FALSE, unsigned |-> FALSE] >>,
      << [col |-> 1, desc |-> TRUE,  unsigned |-> TRUE], [col |-> 2, desc |-> FALSE, unsigned |-> FALSE] >> }

\* The scan_rows hints a caller passes.
ScanHints == {1, 32}

\* The logical_rows lists over a batch of k physical rows: any order, no repeats.
LogicalRowss(k) ==
    { <<>> } \cup { <<i>> : i \in 1..k } \cup { s \in { <<i, j>> : i \in 1..k, j \in 1..k } : s[1] # s[2] }

IsErr(d) == d \notin {"Remain", "Drain"}

\* What the source may answer to one next_batch call: a batch of the physical
\* columns above with any list of logical rows, ending in Remain, Drain or an
\* error. The batches that carry a warning, and the one-row batch whose row is
\* not a logical row, are those over no row or over RowP0.
SrcResults ==
    UNION { { [physical_columns |-> p, logical_rows |-> l, warnings |-> w, is_drained |-> d] :
                l \in { x \in LogicalRowss(Len(p)) : Len(p) = 1 /\ x = <<>> => p = <<RowP0>> },
                w \in (IF p \in { <<>>, <<RowP0>> } THEN {0, 1} ELSE {0}),
                d \in {"Remain", "Drain", "SrcError"} } :
            p \in PhysicalColumnss }

BATCH_MAX_SIZE == 1024

VARIABLES
    exec,        \* the BatchTopNExecutor: its fields and the Arc-pinned batches its rows own
    src,         \* the source: number of next_batch calls it got, the last hint, whether it ended
    result,      \* the BatchExecuteResult of the last next_batch call of the executor
    src_result,  \* the result the source returned during that call, None when it was not pulled
    calls,       \* number of next_batch calls made on the executor
    panicked,    \* the `assert!(!self.is_ended)` failed
    caller_ok,   \* the caller never called next_batch after a Drain or an error
    delivered,   \* bag of the logical rows the source delivered in batches without error
    emitted,     \* bag of the visible rows returned by all the calls so far
    twin,        \* None, or an executor without paging size run on the same source
    passed       \* None, or the last operation other than next_batch: what the source
                 \* answered to it and what the executor answered

vars == <<exec, src, result, src_result, calls, panicked, caller_ok, delivered, emitted, twin, passed>>

\* ------------------------------------------------- row comparator (TopNHeap)
\* What a read through a pointer whose batch has been released finds: no
\* Option (the value is two long).
Freed == <<0, 0>>

Cmp(x, y) == IF x < y THEN -1 ELSE IF x > y THEN 1 ELSE 0

\* `v as u64`: the bit pattern of a signed integer read as unsigned.
AsUnsigned(v) == IF v < 0 THEN v + 2 ^ IntBits ELSE v

\* The natural order that reads every integer as signed.
cmp_value_signed(x, y, unsigned) ==
    IF x = None /\ y = None THEN 0
    ELSE IF x = None THEN -1
    ELSE IF y = None THEN 1
    ELSE Cmp(x[1], y[1])

\* The natural order that puts None below everything, None included.
cmp_value_null_below_null(x, y, unsigned) ==
    IF x = None THEN -1
    ELSE IF y = None THEN 1
    ELSE IF unsigned THEN Cmp(AsUnsigned(x[1]), AsUnsigned(y[1]))
    ELSE Cmp(x[1], y[1])

\* The natural order of two optional integers of one key: None is the minimum.
cmp_value(x, y, unsigned) ==
    IF x = None /\ y = None THEN 0
    ELSE IF x = None THEN -1
    ELSE IF y = None THEN 1
    ELSE IF unsigned THEN Cmp(AsUnsigned(x[1]), AsUnsigned(y[1]))
    ELSE Cmp(x[1], y[1])

\* The value of key k of a heap row: the row's slot of the evaluated column at
\* eval_columns_offset + k, which points into the batch it was evaluated from.
eval_value(self, row, k) ==
    LET at == row.eval_columns_offset + k IN
    IF at > Len(self.eval_columns_buffer_unsafe) THEN Freed
    ELSE LET node == self.eval_columns_buffer_unsafe[at] IN
         IF node.source_data \notin DOMAIN self.pinned THEN Freed
         ELSE LET d == self.pinned[node.source_data] IN
              IF row.logical_row_index > Len(d.logical_rows) THEN Freed
              ELSE d.physical_columns[d.logical_rows[row.logical_row_index]][node.col]

\* HeapItemUnsafe::cmp_sort_key: the keys in declared order, the first that
\* differs decides, inverted when it is descending. ub is what a comparison
\* that reads released memory yields.
RECURSIVE cmp_sort_key_from(_, _, _, _, _)
cmp_sort_key_from(self, a, b, k, ub) ==
    IF k > Len(self.order_exprs) THEN 0
    ELSE LET x == eval_value(self, a, k)
             y == eval_value(self, b, k) IN
         IF x = Freed \/ y = Freed THEN ub
         ELSE LET c == cmp_value(x, y, self.order_exprs_field_type[k].unsigned) IN
              IF c = 0 THEN cmp_sort_key_from(self, a, b, k + 1, ub)
              ELSE IF self.order_is_desc[k] THEN 0 - c ELSE c

cmp_sort_key(self, a, b, ub) == cmp_sort_key_from(self, a, b, 1, ub)

\* ------------------------------------------------------------------ TopNHeap
\* Dropping one handle of an Arc: the batch is released with its last handle.
drop_arc(self, id) ==
    IF self.pinned[id].rc = 1
    THEN [self EXCEPT !.pinned = [x \in (DOMAIN self.pinned) \ {id} |-> self.pinned[x]]]
    ELSE [self EXCEPT !.pinned[id].rc = @ - 1]

\* The position of the current worst row: the greatest of the heap.
RECURSIVE peek_from(_, _, _, _)
peek_from(self, best, j, ub) ==
    IF j > Len(self.heap.heap) THEN best
    ELSE IF cmp_sort_key(self, self.heap.heap[j], self.heap.heap[best], ub) > 0
         THEN peek_from(self, j, j + 1, ub)
         ELSE peek_from(self, best, j + 1, ub)

peek(self, ub) == peek_from(self, 1, 2, ub)

\* The full-heap branch of add_row, w the position of the current worst row:
\* a strictly better row takes its place, any other row is dropped.
replace_greatest(self, row, w, ub) ==
    IF cmp_sort_key(self, row, self.heap.heap[w], ub) < 0
    THEN [self |-> drop_arc([self EXCEPT !.heap.heap[w] = row], self.heap.heap[w].source_data),
          err  |-> ""]
    ELSE [self |-> drop_arc(self, row.source_data), err |-> ""]

\* TopNHeap::add_row: insert while not full, else replace the worst row when
\* the new row is strictly better. A failing comparison drops the row; a full
\* heap without a worst row (capacity 0) is a panic.
add_row(self, row, cmp_fails, ub) ==
    IF cmp_fails
    THEN [self |-> drop_arc(self, row.source_data), err |-> "CmpError"]
    ELSE IF Len(self.heap.heap) < self.heap.n
    THEN [self |-> [self EXCEPT !.heap.heap = Append(@, row)], err |-> ""]
    ELSE IF self.heap.heap = <<>>
    THEN [self |-> drop_arc(self, row.source_data), err |-> "Panic"]
    ELSE replace_greatest(self, row, peek(self, ub), ub)

\* Insertion of a row into a better-first sorted sequence, after its ties.
RECURSIVE insert_sorted(_, _, _, _)
insert_sorted(self, sorted, row, ub) ==
    IF sorted = <<>> THEN <<row>>
    ELSE IF cmp_sort_key(self, row, Head(sorted), ub) < 0 THEN <<row>> \o sorted
    ELSE <<Head(sorted)>> \o insert_sorted(self, Tail(sorted), row, ub)

RECURSIVE into_sorted_vec(_, _, _)
into_sorted_vec(self, rows, ub) ==
    IF rows = <<>> THEN <<>>
    ELSE insert_sorted(self, into_sorted_vec(self, Tail(rows), ub), Head(rows), ub)

\* The whole row a heap item stands for, read through its own Arc.
row_of(self, item) ==
    LET d == self.pinned[item.source_data] IN
    IF item.logical_row_index > Len(d.logical_rows) THEN <<Freed, Freed>>
    ELSE d.physical_columns[d.logical_rows[item.logical_row_index]]

RECURSIVE drop_rows(_, _)
drop_rows(self, rows) ==
    IF rows = <<>> THEN self ELSE drop_rows(drop_arc(self, Head(rows).source_data), Tail(rows))

\* The batch built from the sorted rows; the heap is left empty and the rows'
\* handles are dropped.
take_sorted(self, sorted) ==
    [self    |-> drop_rows([self EXCEPT !.heap.heap = <<>>], sorted),
     columns |-> [i \in 1..Len(sorted) |-> row_of(self, sorted[i])]]

\* TopNHeap::take_all: the retained rows in better-first order as one batch.
take_all(self, ub) == take_sorted(self, into_sorted_vec(self, self.heap.heap, ub))

\* --------------------------------------------------------- BatchTopNExecutor
NoFail == [at |-> "none", k |-> 0]

\* The construction that gives the heap room for one row more than N.
new_heap_one_more(paging_size, order_by, n) ==
    [ heap                       |-> [n |-> n + 1, heap |-> <<>>],
      eval_columns_buffer_unsafe |-> <<>>,
      order_exprs                |-> [k \in 1..Len(order_by) |-> order_by[k].col],
      order_exprs_field_type     |-> [k \in 1..Len(order_by) |-> [unsigned |-> order_by[k].unsigned]],
      order_is_desc              |-> [k \in 1..Len(order_by) |-> order_by[k].desc],
      n                          |-> n,
      context                    |-> [cfg |-> [paging_size |-> paging_size], warnings |-> 0],
      is_ended                   |-> FALSE,
      pinned                     |-> <<>>,
      arcs                       |-> 0 ]

\* BatchTopNExecutor::new: the state after construction.
new(paging_size, order_by, n) ==
    [ heap                       |-> [n |-> n, heap |-> <<>>],
      eval_columns_buffer_unsafe |-> <<>>,
      order_exprs                |-> [k \in 1..Len(order_by) |-> order_by[k].col],
      order_exprs_field_type     |-> [k \in 1..Len(order_by) |-> [unsigned |-> order_by[k].unsigned]],
      order_is_desc              |-> [k \in 1..Len(order_by) |-> order_by[k].desc],
      n                          |-> n,
      context                    |-> [cfg |-> [paging_size |-> paging_size], warnings |-> 0],
      is_ended                   |-> FALSE,
      pinned                     |-> <<>>,
      arcs                       |-> 0 ]

\* eval_exprs_decoded_no_lifetime: one evaluated column per order expression
\* is appended to the buffer, each pointing into the pinned batch; the
\* expression that fails stops it, the columns before it stay appended.
RECURSIVE eval_exprs_decoded_no_lifetime(_, _, _, _)
eval_exprs_decoded_no_lifetime(self, id, k, fail) ==
    IF k > Len(self.order_exprs) THEN [self |-> self, err |-> ""]
    ELSE IF fail.at = "eval" /\ fail.k = k THEN [self |-> self, err |-> "EvalError"]
    ELSE eval_exprs_decoded_no_lifetime(
            [self EXCEPT !.eval_columns_buffer_unsafe =
                            Append(@, [source_data |-> id, col |-> self.order_exprs[k]])],
            id, k + 1, fail)

\* The HeapItemUnsafe that stands for the first logical row whatever the row.
heap_item_first_row(id, eval_offset, logical_row_index) ==
    [source_data         |-> id,
     eval_columns_offset |-> eval_offset,
     logical_row_index   |-> 1]

\* The HeapItemUnsafe of one logical row of the pinned batch.
heap_item(id, eval_offset, logical_row_index) ==
    [source_data         |-> id,
     eval_columns_offset |-> eval_offset,
     logical_row_index   |-> logical_row_index]

\* pinned_source_data.clone()
clone_arc(self, id) == [self EXCEPT !.pinned[id].rc = @ + 1]

\* The loop of process_batch_input stopping after the first logical row.
push_rows_first_only(self, id, eval_offset, logical_row_index, fail, ub) ==
    IF logical_row_index > Len(self.pinned[id].logical_rows) THEN [self |-> self, err |-> ""]
    ELSE add_row(clone_arc(self, id), heap_item(id, eval_offset, logical_row_index),
                 fail.at = "push" /\ fail.k = logical_row_index, ub)

RECURSIVE push_rows(_, _, _, _, _, _)

\* `self.heap.add_row(row)?`: an error leaves the loop, else the next row.
push_next(added, id, eval_offset, logical_row_index, fail, ub) ==
    IF added.err # "" THEN added
    ELSE push_rows(added.self, id, eval_offset, logical_row_index + 1, fail, ub)

\* The loop of process_batch_input over the logical rows of the pinned batch.
push_rows(self, id, eval_offset, logical_row_index, fail, ub) ==
    IF logical_row_index > Len(self.pinned[id].logical_rows) THEN [self |-> self, err |-> ""]
    ELSE push_next(add_row(clone_arc(self, id), heap_item(id, eval_offset, logical_row_index),
                           fail.at = "push" /\ fail.k = logical_row_index, ub),
                   id, eval_offset, logical_row_index, fail, ub)

\* The pinned batch whose logical rows are all its physical rows, in order.
pin_all_physical(self, physical_columns, logical_rows) ==
    [self EXCEPT !.arcs = @ + 1,
                 !.pinned = ((self.arcs + 1) :> [physical_columns |-> physical_columns,
                                                 logical_rows     |-> [i \in 1..Len(physical_columns) |-> i],
                                                 rc               |-> 1]) @@ @]

\* Arc::new(HeapItemSourceData { physical_columns, logical_rows })
pin(self, physical_columns, logical_rows) ==
    [self EXCEPT !.arcs = @ + 1,
                 !.pinned = ((self.arcs + 1) :> [physical_columns |-> physical_columns,
                                                 logical_rows     |-> logical_rows,
                                                 rc               |-> 1]) @@ @]

\* Leaving process_batch_input without dropping its handle of the pinned batch.
drop_local_leak(r, id) == r

\* Leaving process_batch_input drops its own handle of the pinned batch.
drop_local(r, id) == [self |-> drop_arc(r.self, id), err |-> r.err]

\* process_batch_input after the evaluation of the order expressions.
push_evaluated(evaluated, id, eval_offset, fail, ub) ==
    IF evaluated.err # "" THEN drop_local(evaluated, id)
    ELSE drop_local(push_rows(evaluated.self, id, eval_offset, 1, fail, ub), id)

\* process_batch_input whose rows all take offset 0 of the evaluated columns.
process_batch_input_offset_zero(self, physical_columns, logical_rows, fail, ub) ==
    IF fail.at = "decode" THEN [self |-> self, err |-> "DecodeError"]
    ELSE push_evaluated(
            eval_exprs_decoded_no_lifetime(pin(self, physical_columns, logical_rows),
                                           self.arcs + 1, 1, fail),
            self.arcs + 1, 0, fail, ub)

\* process_batch_input whose rows take their keys one column further than
\* where the columns of their batch were appended.
process_batch_input_offset_next(self, physical_columns, logical_rows, fail, ub) ==
    IF fail.at = "decode" THEN [self |-> self, err |-> "DecodeError"]
    ELSE push_evaluated(
            eval_exprs_decoded_no_lifetime(pin(self, physical_columns, logical_rows),
                                           self.arcs + 1, 1, fail),
            self.arcs + 1, Len(self.eval_columns_buffer_unsafe) + 1, fail, ub)

process_batch_input(self, physical_columns, logical_rows, fail, ub) ==
    IF fail.at = "decode" THEN [self |-> self, err |-> "DecodeError"]
    ELSE push_evaluated(
            eval_exprs_decoded_no_lifetime(pin(self, physical_columns, logical_rows),
                                           self.arcs + 1, 1, fail),
            self.arcs + 1, Len(self.eval_columns_buffer_unsafe), fail, ub)

\* The Result<Option<LazyBatchColumnVec>> of handle_next_batch with the
\* executor it leaves: err is the error of an Err, value the Option of an Ok.
Ok(self, value) == [self |-> self, err |-> "", value |-> value]
Err(self, e) == [self |-> self, err |-> e, value |-> None]

\* The pull that leaves the warnings of the source's result where they are.
set_warnings_lost(self, warnings) == self

\* `self.context.warnings = src_result.warnings`
set_warnings(self, warnings) == [self EXCEPT !.context.warnings = warnings]

\* Ok(Some(self.heap.take_all()))
took(taken) == Ok(taken.self, Some(taken.columns))

\* The test on the physical rows of the batch in place of its logical rows.
process_if_physical_rows(self, src_res, fail, ub) ==
    IF src_res.physical_columns # <<>>
    THEN process_batch_input(self, src_res.physical_columns, src_res.logical_rows, fail, ub)
    ELSE [self |-> self, err |-> ""]

\* `if !src_result.logical_rows.is_empty() { self.process_batch_input(..)? }`
process_if_rows(self, src_res, fail, ub) ==
    IF src_res.logical_rows # <<>>
    THEN process_batch_input(self, src_res.physical_columns, src_res.logical_rows, fail, ub)
    ELSE [self |-> self, err |-> ""]

\* The end of handle_next_batch that drains the heap whatever the source reports.
handle_processed_always_take(processed, is_drained, ub) ==
    IF processed.err # "" THEN Err(processed.self, processed.err)
    ELSE took(take_all(processed.self, ub))

\* The end of handle_next_batch that looks at the source's Drain before the
\* error of the processing.
handle_processed_drain_first(processed, is_drained, ub) ==
    IF is_drained = "Drain" THEN took(take_all(processed.self, ub))
    ELSE IF processed.err # "" THEN Err(processed.self, processed.err)
    ELSE Ok(processed.self, None)

\* The end of handle_next_batch that never drains the heap.
handle_processed_never_take(processed, is_drained, ub) ==
    IF processed.err # "" THEN Err(processed.self, processed.err)
    ELSE Ok(processed.self, None)

\* The end of handle_next_batch: the error of the processing, else the drained
\* heap when the source is drained, else nothing.
handle_processed(processed, is_drained, ub) ==
    IF processed.err # "" THEN Err(processed.self, processed.err)
    ELSE IF is_drained = "Drain" THEN took(take_all(processed.self, ub))
    ELSE Ok(processed.self, None)

\* handle_next_batch that skips the rows of the batch that reports Drain.
handle_next_batch_skip_drained(self, src_res, fail, ub) ==
    IF IsErr(src_res.is_drained)
    THEN Err(set_warnings(self, src_res.warnings), src_res.is_drained)
    ELSE handle_processed(
            IF src_res.is_drained = "Drain"
            THEN [self |-> set_warnings(self, src_res.warnings), err |-> ""]
            ELSE process_if_rows(set_warnings(self, src_res.warnings), src_res, fail, ub),
            src_res.is_drained, ub)

\* handle_next_batch that drains the heap before it processes the last batch.
handle_next_batch_take_first(self, src_res, fail, ub) ==
    IF IsErr(src_res.is_drained)
    THEN Err(set_warnings(self, src_res.warnings), src_res.is_drained)
    ELSE IF src_res.is_drained = "Drain"
    THEN took(take_all(set_warnings(self, src_res.warnings), ub))
    ELSE handle_processed(
            process_if_rows(set_warnings(self, src_res.warnings), src_res, fail, ub),
            src_res.is_drained, ub)

\* handle_next_batch that looks at the source's error after processing the batch.
handle_next_batch_process_first(self, src_res, fail, ub) ==
    LET processed == process_if_rows(set_warnings(self, src_res.warnings), src_res, fail, ub) IN
    IF processed.err = "" /\ IsErr(src_res.is_drained)
    THEN Err(processed.self, src_res.is_drained)
    ELSE handle_processed(processed, src_res.is_drained, ub)

\* handle_next_batch that drains the heap when the source reports an error.
handle_next_batch_take_on_error(self, src_res, fail, ub) ==
    IF IsErr(src_res.is_drained)
    THEN took(take_all(set_warnings(self, src_res.warnings), ub))
    ELSE handle_processed(
            process_if_rows(set_warnings(self, src_res.warnings), src_res, fail, ub),
            src_res.is_drained, ub)

\* handle_next_batch, given what the source answers to next_batch(BATCH_MAX_SIZE).
handle_next_batch(self, src_res, fail, ub) ==
    IF IsErr(src_res.is_drained)
    THEN Err(set_warnings(self, src_res.warnings), src_res.is_drained)
    ELSE handle_processed(
            process_if_rows(set_warnings(self, src_res.warnings), src_res, fail, ub),
            src_res.is_drained, ub)

\* The forwarding test with >= in place of >.
bypass_at_equal(self) ==
    /\ self.context.cfg.paging_size # None
    /\ self.n >= self.context.cfg.paging_size[1]

\* Whether next_batch forwards the call to the source.
bypass(self) ==
    /\ self.context.cfg.paging_size # None
    /\ self.n > self.context.cfg.paging_size[1]

take_warnings(self) == [self EXCEPT !.context.warnings = 0]

\* A BatchExecuteResult without rows.
empty_result(warnings, is_drained) ==
    [physical_columns |-> <<>>, logical_rows |-> <<>>, warnings |-> warnings, is_drained |-> is_drained]

\* What one call of next_batch comes to: the executor it leaves, whether it
\* panicked, the scan_rows the source was pulled with (None when it was not
\* pulled) and the result it returned.
returned(self, hint, res) == [self |-> self, panic |-> FALSE, hint |-> hint, result |-> Some(res)]
panic(self, hint) == [self |-> self, panic |-> TRUE, hint |-> hint, result |-> None]

ended(self) == [self EXCEPT !.is_ended = TRUE]

\* The match on the result of handle_next_batch whose error arm leaves
\* is_ended as it is.
next_batch_result_error_not_ended(handled) ==
    IF handled.err = "Panic" THEN panic(handled.self, Some(BATCH_MAX_SIZE))
    ELSE IF handled.err # ""
    THEN returned(take_warnings(handled.self), Some(BATCH_MAX_SIZE),
                  empty_result(handled.self.context.warnings, handled.err))
    ELSE IF handled.value # None
    THEN returned(ended(take_warnings(handled.self)), Some(BATCH_MAX_SIZE),
                  [physical_columns |-> handled.value[1],
                   logical_rows     |-> [i \in 1..Len(handled.value[1]) |-> i],
                   warnings         |-> handled.self.context.warnings,
                   is_drained       |-> "Drain"])
    ELSE returned(take_warnings(handled.self), Some(BATCH_MAX_SIZE),
                  empty_result(handled.self.context.warnings, "Remain"))

\* The match on the result of handle_next_batch that lists the logical rows
\* of the output from the last to the first.
next_batch_result_reversed(handled) ==
    IF handled.err = "Panic" THEN panic(handled.self, Some(BATCH_MAX_SIZE))
    ELSE IF handled.err # ""
    THEN returned(ended(take_warnings(handled.self)), Some(BATCH_MAX_SIZE),
                  empty_result(handled.self.context.warnings, handled.err))
    ELSE IF handled.value # None
    THEN returned(ended(take_warnings(handled.self)), Some(BATCH_MAX_SIZE),
                  [physical_columns |-> handled.value[1],
                   logical_rows     |-> [i \in 1..Len(handled.value[1]) |-> Len(handled.value[1]) + 1 - i],
                   warnings         |-> handled.self.context.warnings,
                   is_drained       |-> "Drain"])
    ELSE returned(take_warnings(handled.self), Some(BATCH_MAX_SIZE),
                  empty_result(handled.self.context.warnings, "Remain"))

\* The match on the result of handle_next_batch whose output lists its first
\* row once for every row.
next_batch_result_first_row(handled) ==
    IF handled.err = "Panic" THEN panic(handled.self, Some(BATCH_MAX_SIZE))
    ELSE IF handled.err # ""
    THEN returned(ended(take_warnings(handled.self)), Some(BATCH_MAX_SIZE),
                  empty_result(handled.self.context.warnings, handled.err))
    ELSE IF handled.value # None
    THEN returned(ended(take_warnings(handled.self)), Some(BATCH_MAX_SIZE),
                  [physical_columns |-> handled.value[1],
                   logical_rows     |-> [i \in 1..Len(handled.value[1]) |-> 1],
                   warnings         |-> handled.self.context.warnings,
                   is_drained       |-> "Drain"])
    ELSE returned(take_warnings(handled.self), Some(BATCH_MAX_SIZE),
                  empty_result(handled.self.context.warnings, "Remain"))

\* The match on the result of handle_next_batch whose error arm returns the
\* rows the heap holds.
next_batch_result_error_with_rows(handled) ==
    IF handled.err = "Panic" THEN panic(handled.self, Some(BATCH_MAX_SIZE))
    ELSE IF handled.err # ""
    THEN returned(ended(take_warnings(handled.self)), Some(BATCH_MAX_SIZE),
                  [physical_columns |-> [i \in 1..Len(handled.self.heap.heap) |->
                                            row_of(handled.self, handled.self.heap.heap[i])],
                   logical_rows     |-> [i \in 1..Len(handled.self.heap.heap) |-> i],
                   warnings         |-> handled.self.context.warnings,
                   is_drained       |-> handled.err])
    ELSE IF handled.value # None
    THEN returned(ended(take_warnings(handled.self)), Some(BATCH_MAX_SIZE),
                  [physical_columns |-> handled.value[1],
                   logical_rows     |-> [i \in 1..Len(handled.value[1]) |-> i],
                   warnings         |-> handled.self.context.warnings,
                   is_drained       |-> "Drain"])
    ELSE returned(take_warnings(handled.self), Some(BATCH_MAX_SIZE),
                  empty_result(handled.self.context.warnings, "Remain"))

\* The match of next_batch on the result of handle_next_batch.
next_batch_result(handled) ==
    IF handled.err = "Panic" THEN panic(handled.self, Some(BATCH_MAX_SIZE))
    ELSE IF handled.err # ""
    THEN returned(ended(take_warnings(handled.self)), Some(BATCH_MAX_SIZE),
                  empty_result(handled.self.context.warnings, handled.err))
    ELSE IF handled.value # None
    THEN returned(ended(take_warnings(handled.self)), Some(BATCH_MAX_SIZE),
                  [physical_columns |-> handled.value[1],
                   logical_rows     |-> [i \in 1..Len(handled.value[1]) |-> i],
                   warnings         |-> handled.self.context.warnings,
                   is_drained       |-> "Drain"])
    ELSE returned(take_warnings(handled.self), Some(BATCH_MAX_SIZE),
                  empty_result(handled.self.context.warnings, "Remain"))

\* next_batch without the fast path of N == 0.
next_batch_no_fast_path(self, scan_rows, src_res, fail, ub) ==
    IF self.is_ended THEN panic(self, None)
    ELSE IF bypass(self) THEN returned(self, Some(scan_rows), src_res)
    ELSE next_batch_result(handle_next_batch(self, src_res, fail, ub))

\* next_batch whose forwarded call carries the fixed batch size as its hint.
next_batch_fixed_hint(self, scan_rows, src_res, fail, ub) ==
    IF self.is_ended THEN panic(self, None)
    ELSE IF self.n = 0 THEN returned(ended(self), None, empty_result(0, "Drain"))
    ELSE IF bypass(self) THEN returned(self, Some(BATCH_MAX_SIZE), src_res)
    ELSE next_batch_result(handle_next_batch(self, src_res, fail, ub))

\* next_batch that answers under the bypass without pulling the source.
next_batch_bypass_without_pull(self, scan_rows, src_res, fail, ub) ==
    IF self.is_ended THEN panic(self, None)
    ELSE IF self.n = 0 THEN returned(ended(self), None, empty_result(0, "Drain"))
    ELSE IF bypass(self) THEN returned(self, None, empty_result(0, "Remain"))
    ELSE next_batch_result(handle_next_batch(self, src_res, fail, ub))

\* next_batch without the assertion.
next_batch_no_assert(self, scan_rows, src_res, fail, ub) ==
    IF self.n = 0 THEN returned(ended(self), None, empty_result(0, "Drain"))
    ELSE IF bypass(self) THEN returned(self, Some(scan_rows), src_res)
    ELSE next_batch_result(handle_next_batch(self, src_res, fail, ub))

\* next_batch that pulls the source with the caller's hint without bypass too.
next_batch_caller_hint(self, scan_rows, src_res, fail, ub) ==
    IF self.is_ended THEN panic(self, None)
    ELSE IF self.n = 0 THEN returned(ended(self), None, empty_result(0, "Drain"))
    ELSE IF bypass(self) THEN returned(self, Some(scan_rows), src_res)
    ELSE [next_batch_result(handle_next_batch(self, src_res, fail, ub)) EXCEPT !.hint = Some(scan_rows)]

\* next_batch whose forwarded call forgets the paging size.
next_batch_bypass_once(self, scan_rows, src_res, fail, ub) ==
    IF self.is_ended THEN panic(self, None)
    ELSE IF self.n = 0 THEN returned(ended(self), None, empty_result(0, "Drain"))
    ELSE IF bypass(self)
    THEN returned([self EXCEPT !.context.cfg.paging_size = None], Some(scan_rows), src_res)
    ELSE next_batch_result(handle_next_batch(self, src_res, fail, ub))

\* next_batch, given what the source answers if it is pulled: the assertion,
\* the fast path of N == 0, the paging bypass, else handle_next_batch.
next_batch(self, scan_rows, src_res, fail, ub) ==
    IF self.is_ended THEN panic(self, None)
    ELSE IF self.n = 0 THEN returned(ended(self), None, empty_result(0, "Drain"))
    ELSE IF bypass(self) THEN returned(self, Some(scan_rows), src_res)
    ELSE next_batch_result(handle_next_batch(self, src_res, fail, ub))

\* ------------------------------------------------------------- the system
\* The ways processing one batch can fail: decoding its columns, evaluating
\* the k-th order expression, comparing its k-th logical row.
Fails(self, src_res) ==
    IF self.is_ended \/ self.n = 0 \/ bypass(self) \/ IsErr(src_res.is_drained)
       \/ src_res.logical_rows = <<>>
    THEN {NoFail}
    ELSE {NoFail, [at |-> "decode", k |-> 0]}
         \cup { [at |-> "eval", k |-> k] : k \in 1..Len(self.order_exprs) }
         \cup { [at |-> "push", k |-> k] : k \in 1..Len(src_res.logical_rows) }

\* The answers of the source that a call can observe: any when the call pulls
\* the source, a single one when it returns before the pull.
SrcAnswers(self) ==
    IF self.is_ended \/ self.n = 0
    THEN { empty_result(0, "Drain") }
    ELSE SrcResults

\* What a comparison can yield when it reads a released batch.
UbOutcomes(self) ==
    IF /\ ~self.is_ended
       /\ self.n > 0
       /\ ~bypass(self)
       /\ \E i \in 1..Len(self.eval_columns_buffer_unsafe) :
              self.eval_columns_buffer_unsafe[i].source_data \notin DOMAIN self.pinned
    THEN {-1, 0, 1} ELSE {0}

\* The logical rows of a batch, as a sequence of rows.
LogicalRowsOf(batch) ==
    [i \in 1..Len(batch.logical_rows) |-> batch.physical_columns[batch.logical_rows[i]]]

RECURSIVE BagOfSeq(_)
BagOfSeq(s) == IF s = <<>> THEN EmptyBag ELSE SetToBag({Head(s)}) (+) BagOfSeq(Tail(s))

Configs ==
    { [n |-> n, paging_size |-> p, order_by |-> o] :
        n \in 0..MaxN, p \in {None} \cup { Some(q) : q \in 1..MaxPaging }, o \in OrderBys }

InitWith(c, t) ==
    /\ exec = new(c.paging_size, c.order_by, c.n)
    /\ twin = t
    /\ src = [pulls |-> 0, hint |-> None, ended |-> FALSE, pulled_after_end |-> FALSE]
    /\ result = None
    /\ src_result = None
    /\ calls = 0
    /\ panicked = FALSE
    /\ caller_ok = TRUE
    /\ delivered = EmptyBag
    /\ emitted = EmptyBag
    /\ passed = None

Init == \E c \in Configs : InitWith(c, None)

\* The source after a call of the executor that pulled it with `hint`.
pulled(hint, src_res) ==
    [pulls |-> src.pulls + 1,
     hint  |-> hint,
     ended |-> src.ended \/ src_res.is_drained # "Remain",
     pulled_after_end |-> src.pulled_after_end \/ src.ended]

\* One call of next_batch by the caller that came to r, the source answering
\* src_res if the call pulled it.
Call(r, src_res, twin_step) ==
    /\ exec' = r.self
    /\ twin' = twin_step
    /\ calls' = calls + 1
    /\ caller_ok' = (caller_ok /\ (result = None \/ result[1].is_drained = "Remain"))
    /\ panicked' = r.panic
    /\ result' = IF r.panic THEN result ELSE r.result
    /\ src_result' = IF r.hint # None THEN Some(src_res) ELSE None
    /\ src' = IF r.hint # None THEN pulled(r.hint, src_res) ELSE src
    /\ delivered' = IF r.hint # None /\ ~IsErr(src_res.is_drained)
                    THEN delivered (+) BagOfSeq(LogicalRowsOf(src_res))
                    ELSE delivered
    /\ emitted' = IF r.panic THEN emitted ELSE emitted (+) BagOfSeq(LogicalRowsOf(r.result[1]))
    /\ passed' = passed

NextBatch(scan_rows) ==
    /\ ~panicked
    /\ calls < MaxCalls
    /\ (exec.is_ended \/ exec.n = 0 \/ src.pulls < MaxPulls)
    /\ \E src_res \in SrcAnswers(exec) :
         \E fail \in Fails(exec, src_res), ub \in UbOutcomes(exec) :
            Call(next_batch(exec, scan_rows, src_res, fail, ub), src_res, twin)

Next == \E scan_rows \in ScanHints : NextBatch(scan_rows)

Spec == Init /\ [][Next]_vars

\* ------------------------------------------ the executor next to its twin
\* The twin is constructed with the same source schema, order keys and N and
\* with no paging size; every call is made on both, the source answering both
\* with the same batch.
InitTwin ==
    \E c \in Configs :
        InitWith(c, Some([self |-> new(None, c.order_by, c.n), result |-> None, panicked |-> FALSE]))

\* The twin after a call that came to t.
twin_after(t) ==
    Some([self     |-> t.self,
          result   |-> IF t.panic THEN twin[1].result ELSE t.result,
          panicked |-> t.panic])

NextBatchTwin(scan_rows) ==
    /\ ~panicked
    /\ calls < MaxCalls
    /\ (exec.is_ended \/ exec.n = 0 \/ src.pulls < MaxPulls)
    /\ \E src_res \in SrcAnswers(exec) :
         \E fail \in Fails(twin[1].self, src_res), ub \in UbOutcomes(twin[1].self) :
            Call(next_batch(exec, scan_rows, src_res, fail, ub), src_res,
                 twin_after(next_batch(twin[1].self, scan_rows, src_res, fail, ub)))

NextTwin == \E scan_rows \in ScanHints : NextBatchTwin(scan_rows)

SpecTwin == InitTwin /\ [][NextTwin]_vars

\* ------------------------------------- two executors of one configuration
\* The second executor is constructed with the same paging size, order keys
\* and N; every call is made on both, the source answering both with the same
\* batch and the batch failing for both in the same way. What a comparison
\* would yield if it read released memory is chosen for each on its own,
\* whatever the state of either.
PairUb == {-1, 0, 1}

InitPair ==
    \E c \in Configs :
        InitWith(c, Some([self |-> new(c.paging_size, c.order_by, c.n), result |-> None, panicked |-> FALSE]))

NextBatchPair(scan_rows) ==
    /\ ~panicked
    /\ calls < MaxCalls
    /\ (exec.is_ended \/ exec.n = 0 \/ src.pulls < MaxPulls)
    /\ \E src_res \in SrcAnswers(exec) :
         \E fail \in Fails(exec, src_res), ub \in PairUb, ub2 \in PairUb :
            Call(next_batch(exec, scan_rows, src_res, fail, ub), src_res,
                 twin_after(next_batch(twin[1].self, scan_rows, src_res, fail, ub2)))

NextPair == \E scan_rows \in ScanHints : NextBatchPair(scan_rows)

SpecPair == InitPair /\ [][NextPair]_vars

\* ------------------------------------------------- the stream that ends
\* The source's answers while termination is followed: a batch of no row, of
\* one row or of two rows of which the second is the logical row, that reports
\* Remain, Drain or an error.
LiveSrcResults ==
    { [physical_columns |-> b.p, logical_rows |-> b.l, warnings |-> 0, is_drained |-> d] :
        b \in { [p |-> <<>>, l |-> <<>>], [p |-> <<RowP0>>, l |-> <<1>>],
                [p |-> <<RowN0, RowM0>>, l |-> <<2>>] },
        d \in {"Remain", "Drain", "SrcError"} }

\* A source that reports Drain or an error after finitely many batches: its
\* batch number MaxPulls, if it is pulled for it, does not report Remain.
LiveSrcAnswers(self) ==
    IF self.is_ended \/ self.n = 0
    THEN { empty_result(0, "Drain") }
    ELSE IF src.pulls + 1 >= MaxPulls
    THEN { r \in LiveSrcResults : r.is_drained # "Remain" }
    ELSE LiveSrcResults

\* The caller that calls next_batch as long as it has received Remain, and
\* no more once it received Drain or an error.
NextBatchLive(scan_rows) ==
    /\ ~panicked
    /\ calls < MaxCalls
    /\ (IF result = None THEN TRUE ELSE result[1].is_drained = "Remain")
    /\ \E src_res \in LiveSrcAnswers(exec) :
         \E fail \in Fails(exec, src_res), ub \in UbOutcomes(exec) :
            Call(next_batch(exec, scan_rows, src_res, fail, ub), src_res, twin)

NextLive == \E scan_rows \in ScanHints : NextBatchLive(scan_rows)

\* The caller keeps calling: a call that stays possible is made.
SpecLive == Init /\ [][NextLive]_vars /\ WF_vars(NextLive)

\* --------------------------------------------- the operations passed on
\* The schema of the source: the field types of its two integer columns.
SrcSchemas == { <<"LongLong", "LongLong">>, <<"UnsignedLongLong", "LongLong">> }

\* What the source adds to the statistics it is asked to collect into.
SrcStats == 0..2

\* The statistics a caller hands in to collect into.
Dests == 0..1

\* The ranges a source has scanned since they were last taken.
SrcRanges == { <<0, 0>>, <<0, 2>> }

\* The source's side of collect_exec_stats and collect_storage_stats: it adds
\* its statistics to dest.
src_collect(stats, dest) == dest + stats

\* schema(): the schema of the source.
schema(src_schema) == src_schema

\* collect_exec_stats(dest): the source collects into dest.
collect_exec_stats(src_stats, dest) == src_collect(src_stats, dest)

\* collect_storage_stats(dest): the source collects into dest.
collect_storage_stats(src_stats, dest) == src_collect(src_stats, dest)

\* take_scanned_range() whose answer is the empty range.
take_scanned_range_default(src_range) == <<0, 0>>

\* take_scanned_range(): the range the source hands over.
take_scanned_range(src_range) == src_range

\* can_be_cached(): what the source says.
can_be_cached(src_cached) == src_cached

\* One operation other than next_batch: the executor and the source's stream
\* are left as they are.
Passed(op, src_value, value) ==
    /\ passed' = Some([op |-> op, src_value |-> src_value, value |-> value])
    /\ UNCHANGED <<exec, src, result, src_result, calls, panicked, caller_ok, delivered, emitted, twin>>

Schema == \E s \in SrcSchemas : Passed("schema", s, schema(s))

CollectExecStats ==
    \E s \in SrcStats, dest \in Dests :
        Passed("collect_exec_stats", src_collect(s, dest), collect_exec_stats(s, dest))

CollectStorageStats ==
    \E s \in SrcStats, dest \in Dests :
        Passed("collect_storage_stats", src_collect(s, dest), collect_storage_stats(s, dest))

TakeScannedRange == \E r \in SrcRanges : Passed("take_scanned_range", r, take_scanned_range(r))

CanBeCached == \E b \in BOOLEAN : Passed("can_be_cached", b, can_be_cached(b))

\* The source's answers while the other operations are exercised: a batch of
\* one or two rows that reports Remain or Drain, or an error.
OpsSrcResults ==
    { [physical_columns |-> p, logical_rows |-> [i \in 1..Len(p) |-> i], warnings |-> 0,
       is_drained |-> d] : p \in { <<RowP0>>, <<RowN0, RowM0>> }, d \in {"Remain", "Drain", "SrcError"} }

NextBatchOps(scan_rows) ==
    /\ ~panicked
    /\ calls < MaxCalls
    /\ (exec.is_ended \/ exec.n = 0 \/ src.pulls < MaxPulls)
    /\ \E src_res \in (IF exec.is_ended \/ exec.n = 0 THEN SrcAnswers(exec) ELSE OpsSrcResults) :
          Call(next_batch(exec, scan_rows, src_res, NoFail, 0), src_res, twin)

NextOps ==
    \/ \E scan_rows \in ScanHints : NextBatchOps(scan_rows)
    \/ Schema
    \/ CollectExecStats
    \/ CollectStorageStats
    \/ TakeScannedRange
    \/ CanBeCached

SpecOps == Init /\ [][NextOps]_vars

\* ------------------------------------------------------- check_supported
\* Largest number of ORDER BY items of a descriptor.
MaxOrderBy == 3

\* An ORDER BY item of a TopN descriptor: its expression, with what
\* RpnExpressionBuilder::check_expr_tree_supported says of it ("" for Ok).
ByItems == { [col |-> c, err |-> e] : c \in 1..2, e \in {"", "Unsupported"} }

\* The ORDER BY lists of the descriptors, the empty one included.
Descriptors == UNION { [1..k -> ByItems] : k \in 0..MaxOrderBy }

\* check_supported that looks at the first item only.
check_supported_first_item(order_by) ==
    IF order_by = <<>> THEN "Missing Top N column"
    ELSE IF order_by[1].err # "" THEN order_by[1].err
    ELSE "Ok"

\* The loop of check_supported: the first item that is not supported returns
\* its error.
RECURSIVE check_items(_, _)
check_items(order_by, k) ==
    IF k > Len(order_by) THEN "Ok"
    ELSE IF order_by[k].err # "" THEN order_by[k].err
    ELSE check_items(order_by, k + 1)

\* BatchTopNExecutor::check_supported: "Ok" or the error.
check_supported(order_by) ==
    IF order_by = <<>> THEN "Missing Top N column"
    ELSE check_items(order_by, 1)

\* check_supported is asked about a descriptor; no executor is touched.
CheckSupported ==
    \E d \in Descriptors : Passed("check_supported", d, check_supported(d))

NextCheck == CheckSupported

SpecCheck == Init /\ [][NextCheck]_vars

\* ------------------------------------------------ the comparator at work
\* Number of rows of the batch whose rows are compared with each other.
CmpN == 3

\* The integer values of a key column: NULL, the smallest signed value, -3,
\* the pattern of all ones, the largest signed value.
CmpValues ==
    { None, Some(0 - 2 ^ (IntBits - 1)), Some(-3), Some(-1), Some(2 ^ (IntBits - 1) - 1) }

CmpRows == { <<x, y>> : x \in CmpValues, y \in { None, Some(0), Some(1) } }

\* One or two keys, each direction, the first key signed or unsigned.
CmpOrderBys ==
    { << [col |-> 1, desc |-> d, unsigned |-> u] >> : d \in BOOLEAN, u \in BOOLEAN }
    \cup { << [col |-> 1, desc |-> d, unsigned |-> u], [col |-> 2, desc |-> e, unsigned |-> FALSE] >> :
              d \in BOOLEAN, u \in BOOLEAN, e \in BOOLEAN }

\* The source's answers: one batch of CmpN rows that reports Remain, then an
\* empty batch that reports Drain.
CmpSrcResults ==
    IF calls = 0
    THEN { [physical_columns |-> p, logical_rows |-> [i \in 1..CmpN |-> i], warnings |-> 0,
            is_drained |-> "Remain"] : p \in [1..CmpN -> CmpRows] }
    ELSE { empty_result(0, "Drain") }

\* An executor that retains every row it is given.
InitCmp == \E o \in CmpOrderBys : InitWith([n |-> CmpN, paging_size |-> None, order_by |-> o], None)

NextBatchCmp(scan_rows) ==
    /\ ~exec.is_ended
    /\ \E src_res \in CmpSrcResults :
          Call(next_batch(exec, scan_rows, src_res, NoFail, 0), src_res, twin)

NextCmp == \E scan_rows \in ScanHints : NextBatchCmp(scan_rows)

SpecCmp == InitCmp /\ [][NextCmp]_vars

\* ----------------------------------------------------- the construction
\* The order expressions a caller hands to new: references to the columns of
\* the source.
OrderExprsDefs == { <<1>>, <<1, 2>>, <<2, 1>> }

\* The descending flags a caller hands to new.
OrderIsDescs == { <<FALSE>>, <<TRUE>>, <<TRUE, FALSE>>, <<FALSE, TRUE>> }

\* new that takes lists of any lengths.
new_asserts_nothing(order_exprs_def, order_is_desc) == TRUE

\* `assert_eq!(order_exprs_def.len(), order_is_desc.len())`: whether new
\* gets past it.
new_asserts(order_exprs_def, order_is_desc) == Len(order_exprs_def) = Len(order_is_desc)

\* expr.ret_field_type(src.schema()) of a column reference.
ret_field_type(col, src_schema) == [unsigned |-> src_schema[col] = "UnsignedLongLong"]

\* BatchTopNExecutor::new past its assertion: one field type per expression,
\* the flags as they were handed in.
new_from(paging_size, src_schema, order_exprs_def, order_is_desc, n) ==
    [ heap                       |-> [n |-> n, heap |-> <<>>],
      eval_columns_buffer_unsafe |-> <<>>,
      order_exprs                |-> order_exprs_def,
      order_exprs_field_type     |-> [k \in 1..Len(order_exprs_def) |->
                                        ret_field_type(order_exprs_def[k], src_schema)],
      order_is_desc              |-> order_is_desc,
      n                          |-> n,
      context                    |-> [cfg |-> [paging_size |-> paging_size], warnings |-> 0],
      is_ended                   |-> FALSE,
      pinned                     |-> <<>>,
      arcs                       |-> 0 ]

\* The executors that new returns: a failed assertion returns none.
InitNew ==
    \E n \in 0..MaxN, p \in {None} \cup { Some(q) : q \in 1..MaxPaging }, s \in SrcSchemas,
       e \in OrderExprsDefs, d \in OrderIsDescs :
        /\ new_asserts(e, d)
        /\ exec = new_from(p, s, e, d, n)
        /\ twin = None
        /\ src = [pulls |-> 0, hint |-> None, ended |-> FALSE, pulled_after_end |-> FALSE]
        /\ result = None
        /\ src_result = None
        /\ calls = 0
        /\ panicked = FALSE
        /\ caller_ok = TRUE
        /\ delivered = EmptyBag
        /\ emitted = EmptyBag
        /\ passed = None

\* The source's answers to the executors so constructed: a batch of one row or
\* of two, that reports Remain, Drain or an error.
NewSrcAnswers(self) ==
    IF self.is_ended \/ self.n = 0 THEN SrcAnswers(self) ELSE OpsSrcResults

NextBatchNew(scan_rows) ==
    /\ ~panicked
    /\ calls < MaxCalls
    /\ (exec.is_ended \/ exec.n = 0 \/ src.pulls < MaxPulls)
    /\ \E src_res \in NewSrcAnswers(exec) :
         \E fail \in Fails(exec, src_res), ub \in UbOutcomes(exec) :
            Call(next_batch(exec, scan_rows, src_res, fail, ub), src_res, twin)

NextNew == \E scan_rows \in ScanHints : NextBatchNew(scan_rows)

SpecNew == InitNew /\ [][NextNew]_vars

\* ------------------------------------------------------------------ claims
\* Whether the paging bypass applies to the executor.
Bypassed ==
    /\ exec.context.cfg.paging_size # None
    /\ exec.n > exec.context.cfg.paging_size[1]

NormalMode == exec.n > 0 /\ ~Bypassed

Min(a, b) == IF a < b THEN a ELSE b

\* The status of the last result, "" before the first call.
Status == IF result = None THEN "" ELSE result[1].is_drained

\* The status of the source's answer in the last call, "" when it was not pulled.
SrcStatus == IF src_result = None THEN "" ELSE src_result[1].is_drained

\* The visible rows of the last result.
OutRows == IF result = None THEN <<>> ELSE LogicalRowsOf(result[1])

\* The better-first order of two rows under the executor's ORDER BY: the sign
\* of the first key that differs, inverted when that key is descending.
RECURSIVE RowCmpFrom(_, _, _)
RowCmpFrom(a, b, k) ==
    IF k > Len(exec.order_exprs) THEN 0
    ELSE LET c == cmp_value(a[exec.order_exprs[k]], b[exec.order_exprs[k]],
                            exec.order_exprs_field_type[k].unsigned) IN
         IF c = 0 THEN RowCmpFrom(a, b, k + 1)
         ELSE IF exec.order_is_desc[k] THEN 0 - c ELSE c

RowCmp(a, b) == RowCmpFrom(a, b, 1)

\* The delivered rows that are absent from the output.
Absent == delivered (-) emitted

\* C1 as stated: for every stream the source ends with a successful Drain and
\* every N, the number of rows returned over all calls is
\* min(N, number of logical rows delivered).
C1_Original ==
    (caller_ok /\ (SrcStatus = "Drain" \/ (exec.n = 0 /\ calls >= 1)))
        => BagCardinality(emitted) = Min(exec.n, BagCardinality(delivered))

\* C1 amended: when the bypass does not apply and the executor returns Drain
\* (no batch failed in decoding, evaluation or comparison), the number of rows
\* returned over all calls is min(N, number of logical rows delivered).
C1_RowCount ==
    (~Bypassed /\ Status = "Drain")
        => BagCardinality(emitted) = Min(exec.n, BagCardinality(delivered))

\* C1's case: a stream of two batches with more rows than N, drained.
C1_Witness ==
    /\ NormalMode
    /\ Status = "Drain"
    /\ src.pulls = 2
    /\ BagCardinality(delivered) > exec.n
    /\ BagCardinality(emitted) = exec.n

Sorted(rows) == \A i \in 1..(Len(rows) - 1) : RowCmp(rows[i], rows[i + 1]) <= 0

\* C2 as stated: the rows of the Drain output batch are sorted better-first.
C2_Original == Status = "Drain" => Sorted(OutRows)

\* C2 amended: when the bypass does not apply, the rows of the Drain output
\* batch are sorted better-first: no row sorts strictly after its successor.
C2_Sorted == (~Bypassed /\ Status = "Drain") => Sorted(OutRows)

\* C2's case: two output rows of different batches, the first strictly better,
\* the better one delivered last.
C2_Witness ==
    /\ NormalMode
    /\ Status = "Drain"
    /\ src.pulls = 2
    /\ Len(OutRows) = 2
    /\ RowCmp(OutRows[1], OutRows[2]) < 0
    /\ src_result[1].logical_rows = <<1>>
    /\ src_result[1].physical_columns[1] = OutRows[1]

\* C3: once the executor has returned Drain, no delivered row that is absent
\* from the output is strictly better than a row of the output.
C3_NBest ==
    Status = "Drain"
        => \A r \in BagToSet(Absent), o \in BagToSet(emitted) : RowCmp(r, o) >= 0

\* C3's case: N = 1, two batches, a strictly worse row was left out.
C3_Witness ==
    /\ NormalMode
    /\ Status = "Drain"
    /\ src.pulls = 2
    /\ \E r \in BagToSet(Absent), o \in BagToSet(emitted) : RowCmp(r, o) > 0
    /\ src_result[1].logical_rows # <<>>
    /\ OutRows = LogicalRowsOf(src_result[1])

\* C4: with N = 0 the source is never pulled, and from the first call on the
\* result is the empty Drain result and the executor is Ended.
C4_ZeroLimit ==
    exec.n = 0
        => /\ src.pulls = 0
           /\ src_result = None
           /\ calls >= 1 => (result = Some(empty_result(0, "Drain")) /\ exec.is_ended)

\* C4's case: N = 0 and the caller called twice.
C4_Witness == exec.n = 0 /\ calls = 2 /\ panicked /\ src.pulls = 0

\* C5: in a call under the bypass the source is pulled with the caller's
\* scan_rows and the call returns the source's answer unchanged.
C5_Bypass ==
    [][\A h \in ScanHints :
          (Bypassed /\ NextBatch(h))
              => (src'.hint = Some(h) /\ src'.pulls = src.pulls + 1 /\ result' = src_result'
                  /\ src_result' # None)]_vars

\* C5's case: the second forwarded call returned a Drain batch of two rows.
C5_Witness ==
    /\ Bypassed
    /\ calls = 2
    /\ Status = "Drain"
    /\ Len(OutRows) = 2
    /\ result = src_result

\* C6: with a paging size configured and N at most the paging size, every
\* call returns what the same call returns on the twin constructed without
\* paging size (and fails the assertion when the twin's does).
C6_NoBypass ==
    (twin # None /\ exec.context.cfg.paging_size # None /\ exec.n <= exec.context.cfg.paging_size[1])
        => (result = twin[1].result /\ panicked = twin[1].panicked)

\* C6's case: N equal to the paging size, two batches, a Drain result with rows.
C6_Witness ==
    /\ twin # None
    /\ exec.context.cfg.paging_size = Some(exec.n)
    /\ src.pulls = 2
    /\ Status = "Drain"
    /\ OutRows # <<>>
    /\ result # src_result

\* C7 as stated: the executor starts in Streaming and is in Ended after every
\* call that returned Drain or an error.
C7_Original ==
    /\ calls = 0 => ~exec.is_ended
    /\ Status \notin {"", "Remain"} => exec.is_ended

\* C7 amended: is_ended is a flag, FALSE (Streaming) at the start; when the
\* bypass does not apply the executor is Ended after every call that returned
\* Drain or an error; under the bypass it stays Streaming whatever the source
\* returns; and no step takes an Ended executor back to Streaming.
C7_States ==
    /\ [](exec.is_ended \in BOOLEAN)
    /\ [](calls = 0 => ~exec.is_ended)
    /\ []((~Bypassed /\ Status \notin {"", "Remain"}) => exec.is_ended)
    /\ [](Bypassed => ~exec.is_ended)
    /\ [][exec.is_ended => exec'.is_ended]_vars

\* C7's case: the second call failed in evaluation and ended the executor,
\* and the caller called again.
C7_Witness ==
    /\ NormalMode
    /\ calls = 3
    /\ Status = "EvalError"
    /\ exec.is_ended
    /\ panicked

EmptyResult(r) == r.physical_columns = <<>> /\ r.logical_rows = <<>>

\* C8 as stated: without bypass and with N > 0, a source batch that reports
\* Remain makes the call return an empty Remain result with the executor still
\* Streaming, and only the call that returns Drain returns rows.
C8_Original ==
    (NormalMode /\ ~panicked /\ calls >= 1)
        => /\ SrcStatus = "Remain"
                => (Status = "Remain" /\ EmptyResult(result[1]) /\ ~exec.is_ended)
           /\ Status # "Drain" => emitted = EmptyBag

\* C8 amended: without bypass and with N > 0, a source batch that reports
\* Remain and whose processing does not fail makes the call return an empty
\* Remain result with the executor still Streaming; only the call that returns
\* Drain returns rows.
C8_RemainEmpty ==
    (NormalMode /\ ~panicked /\ calls >= 1)
        => /\ (SrcStatus = "Remain" /\ ~IsErr(Status))
                => (Status = "Remain" /\ EmptyResult(result[1]) /\ ~exec.is_ended)
           /\ Status # "Drain" => emitted = EmptyBag

\* C8's case: the second batch, with logical rows, reported Remain.
C8_Witness ==
    /\ NormalMode
    /\ calls = 2
    /\ SrcStatus = "Remain"
    /\ src_result[1].logical_rows # <<>>
    /\ Status = "Remain"
    /\ exec.heap.heap # <<>>

\* Each logical row of the last source batch is in the output, unless the
\* output is full of rows that are at least as good.
LastBatchInOutput ==
    \A i \in 1..Len(src_result[1].logical_rows) :
        LET r == LogicalRowsOf(src_result[1])[i] IN
        \/ \E j \in 1..Len(OutRows) : OutRows[j] = r
        \/ (Len(OutRows) = exec.n /\ \A j \in 1..Len(OutRows) : RowCmp(OutRows[j], r) <= 0)

\* What holds of the call that returns Drain: the executor is Ended, the heap
\* is drained and the rows of the last batch took part in the selection.
DrainCall == exec.is_ended /\ exec.heap.heap = <<>> /\ LastBatchInOutput

\* C9 as stated: without bypass and with N > 0, the call returns Drain exactly
\* when the pulled source batch reports Drain.
C9_Original ==
    (NormalMode /\ ~panicked /\ calls >= 1)
        => /\ Status = "Drain" <=> SrcStatus = "Drain"
           /\ Status = "Drain" => DrainCall

\* C9 amended: without bypass and with N > 0, the call returns Drain exactly
\* when the pulled source batch reports Drain and processing that batch does
\* not fail; the rows of that batch are pushed before the heap is drained.
C9_DrainCall ==
    (NormalMode /\ ~panicked /\ calls >= 1)
        => /\ Status = "Drain" <=> (SrcStatus = "Drain" /\ ~IsErr(Status))
           /\ Status = "Drain" => DrainCall

\* C9's case: the Drain batch brought a row that is in the output next to a
\* row of the batch before.
C9_Witness ==
    /\ NormalMode
    /\ calls = 2
    /\ Status = "Drain"
    /\ Len(OutRows) = 2
    /\ Len(src_result[1].logical_rows) = 1
    /\ \E j \in 1..2 : OutRows[j] = LogicalRowsOf(src_result[1])[1]

\* What C10 says of a call whose source batch carries an error.
SrcErrorStep ==
    /\ EmptyResult(result'[1])
    /\ result'[1].is_drained = src_result'[1].is_drained
    /\ exec'.is_ended
    /\ exec'.heap = exec.heap
    /\ exec'.eval_columns_buffer_unsafe = exec.eval_columns_buffer_unsafe
    /\ exec'.arcs = exec.arcs

\* C10 as stated: a call whose source batch carries an error returns an empty
\* result with that error, ends the executor and processes none of its rows.
C10_Original ==
    [][(calls' = calls + 1 /\ src_result' # None /\ IsErr(src_result'[1].is_drained))
          => SrcErrorStep]_vars

\* C10 amended: when the bypass does not apply, a call whose source batch
\* carries an error returns an empty result with that error, ends the executor
\* and neither evaluates nor pushes the rows of that batch.
C10_SrcError ==
    [][(~Bypassed /\ calls' = calls + 1 /\ src_result' # None /\ IsErr(src_result'[1].is_drained))
          => SrcErrorStep]_vars

\* C10's case: the second batch carries an error and logical rows, the heap
\* holds a row of the first.
C10_Witness ==
    /\ NormalMode
    /\ calls = 2
    /\ SrcStatus = "SrcError"
    /\ src_result[1].logical_rows # <<>>
    /\ Status = "SrcError"
    /\ exec.heap.heap # <<>>
    /\ exec.is_ended

\* The error a failure of process_batch_input is reported as.
FailError(fail) ==
    IF fail.at = "decode" THEN "DecodeError"
    ELSE IF fail.at = "eval" THEN "EvalError"
    ELSE "CmpError"

\* C11: a call in which column decoding, the evaluation of an order expression
\* or a heap push fails returns an empty result carrying that error and ends
\* the executor, whether the source batch reported Remain or Drain.
C11_ProcessError ==
    [][\A h \in ScanHints :
          (calls' = calls + 1 /\ src_result' # None)
              => \A fail \in Fails(exec, src_result'[1]) \ {NoFail}, ub \in UbOutcomes(exec) :
                    Call(next_batch(exec, h, src_result'[1], fail, ub), src_result'[1], twin)
                        => /\ EmptyResult(result'[1])
                           /\ result'[1].is_drained = FailError(fail)
                           /\ exec'.is_ended
                           /\ emitted' = emitted]_vars

\* C11's case: the evaluation failed on the batch that reported Drain while
\* the heap held a row of the batch before; nothing was returned.
C11_Witness ==
    /\ NormalMode
    /\ calls = 2
    /\ SrcStatus = "Drain"
    /\ Status = "EvalError"
    /\ EmptyResult(result[1])
    /\ exec.is_ended
    /\ exec.heap.heap # <<>>
    /\ emitted = EmptyBag

\* C12: a call of next_batch that meets its precondition (the executor is
\* Streaming) pulls the source not at all when N = 0 and exactly once
\* otherwise, under the bypass as without it; no step pulls it twice, and the
\* source has never been pulled more often than the executor was called.
C12_OnePull ==
    /\ [](src.pulls <= calls)
    /\ [][src'.pulls \in {src.pulls, src.pulls + 1}]_vars
    /\ [][(calls' = calls + 1 /\ ~exec.is_ended)
            => /\ src'.pulls = src.pulls + (IF exec.n = 0 THEN 0 ELSE 1)
               /\ (src_result' = None) <=> (exec.n = 0)]_vars

\* C12's case: two calls without bypass, each of which pulled the source.
C12_Witness ==
    /\ NormalMode
    /\ calls = 2
    /\ src.pulls = 2
    /\ ~panicked
    /\ src.hint = Some(BATCH_MAX_SIZE)

\* The heap after the first k logical rows of the batch src_res went through
\* the loop of process_batch_input.
HeapAfterRows(src_res, k, ub) ==
    process_batch_input(set_warnings(exec, src_res.warnings), src_res.physical_columns,
                        SubSeq(src_res.logical_rows, 1, k), NoFail, ub).self.heap.heap

\* C13: the heap never holds more than N rows, in every state between two
\* calls and after each single row pushed while a batch is processed.
C13_HeapBound ==
    /\ [](Len(exec.heap.heap) <= exec.n /\ exec.heap.n = exec.n)
    /\ [][(calls' = calls + 1 /\ NormalMode /\ ~exec.is_ended /\ ~IsErr(src_result'[1].is_drained))
            => \A k \in 0..Len(src_result'[1].logical_rows), ub \in UbOutcomes(exec) :
                  Len(HeapAfterRows(src_result'[1], k, ub)) <= exec.n]_vars

\* C13's case: N = 1, a batch of two logical rows was processed onto a heap
\* that already held a row.
C13_Witness ==
    /\ NormalMode
    /\ exec.n = 1
    /\ calls = 2
    /\ Status = "Remain"
    /\ Len(src_result[1].logical_rows) = 2
    /\ Len(exec.heap.heap) = 1

\* The rows the heap of an executor holds, in the heap's own order.
HeapRows(self) == [i \in 1..Len(self.heap.heap) |-> row_of(self, self.heap.heap[i])]

\* The rows the heap holds, in the heap's own order, after the first k logical
\* rows of the batch src_res went through the loop of process_batch_input.
HeapRowsAfter(src_res, k, ub) ==
    HeapRows(process_batch_input(set_warnings(exec, src_res.warnings), src_res.physical_columns,
                                 SubSeq(src_res.logical_rows, 1, k), NoFail, ub).self)

\* What C14 says of pushing row r onto a heap holding the rows b, leaving a.
PushLaw(b, r, a) ==
    IF Len(b) < exec.n THEN a = Append(b, r)
    ELSE IF \A j \in 1..Len(b) : RowCmp(r, b[j]) >= 0 THEN a = b
    ELSE /\ Len(a) = Len(b)
         /\ \E w \in 1..Len(b) :
               /\ \A j \in 1..Len(b) : RowCmp(b[j], b[w]) <= 0
               /\ RowCmp(r, b[w]) < 0
               /\ a = [b EXCEPT ![w] = r]

\* C14: each push of a row while a batch is processed inserts the row when
\* the heap holds fewer than N rows, replaces the worst row when the heap is
\* full and the row is strictly better than it, and leaves the heap as it is
\* when the heap is full and the row is worse than or tied with the worst.
C14_Push ==
    [][(calls' = calls + 1 /\ NormalMode /\ ~exec.is_ended /\ ~IsErr(src_result'[1].is_drained))
          => \A k \in 1..Len(src_result'[1].logical_rows), ub \in UbOutcomes(exec) :
                PushLaw(HeapRowsAfter(src_result'[1], k - 1, ub),
                        LogicalRowsOf(src_result'[1])[k],
                        HeapRowsAfter(src_result'[1], k, ub))]_vars

\* C14's case: N = 1, the heap held a row of the first batch and the row of
\* the second batch, strictly better, took its place.
C14_Witness ==
    /\ NormalMode
    /\ exec.n = 1
    /\ calls = 2
    /\ Status = "Remain"
    /\ Len(src_result[1].logical_rows) = 1
    /\ BagCardinality(delivered) = 2
    /\ Len(exec.heap.heap) = 1
    /\ row_of(exec, exec.heap.heap[1]) = LogicalRowsOf(src_result[1])[1]
    /\ \E r \in BagToSet(delivered) : RowCmp(LogicalRowsOf(src_result[1])[1], r) < 0

\* The batches that rows of the heap reference.
Referenced == { exec.heap.heap[i].source_data : i \in 1..Len(exec.heap.heap) }

\* C15: the batches whose data the executor retains are exactly those that a
\* row of the heap references, each held by as many handles as rows of the
\* heap reference it; a batch whose last row was evicted or drained is
\* released.
C15_Retained ==
    /\ DOMAIN exec.pinned = Referenced
    /\ \A id \in DOMAIN exec.pinned :
          exec.pinned[id].rc = Cardinality({ i \in 1..Len(exec.heap.heap) : exec.heap.heap[i].source_data = id })

\* C15's case: two batches were pinned; the only row of the first was evicted
\* by a row of the second, and the first batch is released.
C15_Witness ==
    /\ NormalMode
    /\ exec.arcs = 2
    /\ Status = "Remain"
    /\ DOMAIN exec.pinned = {2}
    /\ Len(exec.heap.heap) = 1
    /\ BagCardinality(delivered) = 2

\* C16 as stated: the executor, while Streaming, holds evaluated sort-key
\* columns only of batches that a row of the heap still references.
C16_Original ==
    ~exec.is_ended =>
    \A i \in 1..Len(exec.eval_columns_buffer_unsafe) :
        exec.eval_columns_buffer_unsafe[i].source_data \in Referenced

\* The value of key k of the i-th row of the heap.
KeyOf(i, k) == eval_value(exec, exec.heap.heap[i], k)

\* The comparison of the i-th with the j-th row of the heap.
HeapCmp(i, j) == cmp_sort_key(exec, exec.heap.heap[i], exec.heap.heap[j], 0)

\* The rows of the heap, by position.
HeapIdx == 1..Len(exec.heap.heap)

\* The value of the single key of the i-th output row.
OutKey(i) == OutRows[i][exec.order_exprs[1]]

\* C17: on every key NULL compares below every non-NULL value and ties with
\* NULL before the direction is applied; under a single key two rows with
\* NULL tie, and in the output the rows with NULL come before all others
\* when the key is ascending and after all others when it is descending.
C17_NullOrder ==
    /\ \A i \in HeapIdx, j \in HeapIdx, k \in 1..Len(exec.order_exprs) :
          KeyOf(i, k) = None
            => cmp_value(KeyOf(i, k), KeyOf(j, k), exec.order_exprs_field_type[k].unsigned)
                  = (IF KeyOf(j, k) = None THEN 0 ELSE -1)
    /\ Len(exec.order_exprs) = 1
          => /\ \A i \in HeapIdx, j \in HeapIdx :
                  (KeyOf(i, 1) = None /\ KeyOf(j, 1) = None) => HeapCmp(i, j) = 0
             /\ \A i \in HeapIdx, j \in HeapIdx :
                  (KeyOf(i, 1) = None /\ KeyOf(j, 1) # None)
                      => HeapCmp(i, j) = (IF exec.order_is_desc[1] THEN 1 ELSE -1)
             /\ Status = "Drain"
                  => \A i \in 1..Len(OutRows), j \in 1..Len(OutRows) :
                        (i < j /\ (OutKey(i) = None) # (OutKey(j) = None))
                            => (OutKey(j) = None) = exec.order_is_desc[1]

\* C17's case: a single descending key, the output is a non-NULL row followed
\* by two rows with NULL.
C17_Witness ==
    /\ Len(exec.order_exprs) = 1
    /\ exec.order_is_desc[1]
    /\ Status = "Drain"
    /\ Len(OutRows) = CmpN
    /\ OutKey(1) # None
    /\ OutKey(2) = None
    /\ OutKey(3) = None

\* The value of the first key's column in the i-th row of the source batch.
SrcKey(i) == LogicalRowsOf(src_result[1])[i][exec.order_exprs[1]]

\* The order of two integers of the first key: by their bit pattern read as
\* unsigned when its field type is unsigned, as signed values otherwise; then
\* inverted when the key is descending.
IntOrder(x, y) ==
    LET c == IF exec.order_exprs_field_type[1].unsigned
             THEN Cmp(x % (2 ^ IntBits), y % (2 ^ IntBits))
             ELSE Cmp(x, y) IN
    IF exec.order_is_desc[1] THEN 0 - c ELSE c

\* C18: two rows whose first key holds different integers compare as the bit
\* patterns read as unsigned when the key's field type is unsigned, and as
\* signed values when it is not; the drained output is in that order.
C18_Unsigned ==
    /\ (calls = 1 /\ Len(exec.heap.heap) = CmpN)
          => \A i \in 1..CmpN, j \in 1..CmpN :
                (SrcKey(i) # None /\ SrcKey(j) # None /\ SrcKey(i) # SrcKey(j))
                    => HeapCmp(i, j) = IntOrder(SrcKey(i)[1], SrcKey(j)[1])
    /\ Status = "Drain"
          => \A i \in 1..Len(OutRows), j \in 1..Len(OutRows) :
                (i < j /\ OutKey(i) # None /\ OutKey(j) # None)
                    => IntOrder(OutKey(i)[1], OutKey(j)[1]) <= 0

\* C18's case: a single ascending unsigned key; the largest signed value
\* comes first, then the pattern of the smallest signed value, then the
\* pattern of all ones.
C18_Witness ==
    /\ Len(exec.order_exprs) = 1
    /\ exec.order_exprs_field_type[1].unsigned
    /\ ~exec.order_is_desc[1]
    /\ Status = "Drain"
    /\ Len(OutRows) = CmpN
    /\ OutKey(1) = Some(2 ^ (IntBits - 1) - 1)
    /\ OutKey(2) = Some(0 - 2 ^ (IntBits - 1))
    /\ OutKey(3) = Some(-1)

\* The value of key k in a row.
KeyIn(row, k) == row[exec.order_exprs[k]]

\* The natural order of two values of key k: NULL first, then the integers by
\* the key's signedness.
Natural(x, y, k) ==
    IF x = y THEN 0
    ELSE IF x = None THEN -1
    ELSE IF y = None THEN 1
    ELSE IF exec.order_exprs_field_type[k].unsigned
    THEN Cmp(x[1] % (2 ^ IntBits), y[1] % (2 ^ IntBits))
    ELSE Cmp(x[1], y[1])

\* The keys on which two rows differ.
Differing(a, b) == { k \in 1..Len(exec.order_exprs) : KeyIn(a, k) # KeyIn(b, k) }

\* The first of a non-empty set of keys.
First(ks) == CHOOSE k \in ks : \A l \in ks : k <= l

\* The lexicographic order of two rows: a tie when no key differs, else the
\* natural order on the first key that differs, inverted when it is descending.
Lexicographic(a, b) ==
    IF Differing(a, b) = {} THEN 0
    ELSE IF exec.order_is_desc[First(Differing(a, b))]
    THEN 0 - Natural(KeyIn(a, First(Differing(a, b))), KeyIn(b, First(Differing(a, b))), First(Differing(a, b)))
    ELSE Natural(KeyIn(a, First(Differing(a, b))), KeyIn(b, First(Differing(a, b))), First(Differing(a, b)))

\* C19: the comparison of two rows is the lexicographic one over the keys in
\* declared order: the first key on which they differ decides, inverted
\* exactly when that key is descending, and they tie when no key differs; the
\* drained output is in that order.
C19_Lexicographic ==
    /\ (calls = 1 /\ Len(exec.heap.heap) = CmpN)
          => \A i \in 1..CmpN, j \in 1..CmpN :
                HeapCmp(i, j) = Lexicographic(LogicalRowsOf(src_result[1])[i],
                                              LogicalRowsOf(src_result[1])[j])
    /\ Status = "Drain"
          => \A i \in 1..Len(OutRows), j \in 1..Len(OutRows) :
                i < j => Lexicographic(OutRows[i], OutRows[j]) <= 0

\* C19's case: two keys, the second descending; two output rows tie on the
\* first key and the second key puts the larger value first.
C19_Witness ==
    /\ Len(exec.order_exprs) = 2
    /\ exec.order_is_desc[2]
    /\ ~exec.order_is_desc[1]
    /\ Status = "Drain"
    /\ Len(OutRows) = CmpN
    /\ KeyIn(OutRows[1], 1) = KeyIn(OutRows[2], 1)
    /\ KeyIn(OutRows[1], 2) = Some(1)
    /\ KeyIn(OutRows[2], 2) = Some(0)
    /\ Lexicographic(OutRows[2], OutRows[3]) < 0

\* The rows of the heap in better-first order, as take_all returns them.
BetterFirst == into_sorted_vec(exec, exec.heap.heap, 0)

\* C20: the comparison of rows is a total preorder: a row ties with itself,
\* any two rows are compared, the comparison of b with a is that of a with b
\* inverted, and "not after" is transitive; the row the heap holds as its
\* worst is not before any other, and is a last row of the better-first order.
C20_Preorder ==
    (calls = 1 /\ Len(exec.heap.heap) = CmpN)
        => /\ \A i \in HeapIdx : HeapCmp(i, i) = 0
           /\ \A i \in HeapIdx, j \in HeapIdx :
                 HeapCmp(i, j) \in {-1, 0, 1} /\ HeapCmp(j, i) = 0 - HeapCmp(i, j)
           /\ \A i \in HeapIdx, j \in HeapIdx, k \in HeapIdx :
                 (HeapCmp(i, j) <= 0 /\ HeapCmp(j, k) <= 0) => HeapCmp(i, k) <= 0
           /\ \A j \in HeapIdx : HeapCmp(peek(exec, 0), j) >= 0
           /\ cmp_sort_key(exec, BetterFirst[CmpN], exec.heap.heap[peek(exec, 0)], 0) = 0
           /\ \A i \in 1..(CmpN - 1) : cmp_sort_key(exec, BetterFirst[i], BetterFirst[i + 1], 0) <= 0

\* C20's case: three retained rows under two keys, each strictly before the
\* next, the worst of them first in the heap.
C20_Witness ==
    /\ calls = 1
    /\ Len(exec.heap.heap) = CmpN
    /\ Len(exec.order_exprs) = 2
    /\ HeapCmp(3, 2) < 0
    /\ HeapCmp(2, 1) < 0
    /\ HeapCmp(3, 1) < 0
    /\ peek(exec, 0) = 1
    /\ KeyOf(1, 1) = KeyOf(2, 1)

\* C21: schema, collect_exec_stats, collect_storage_stats, take_scanned_range
\* and can_be_cached answer what the source answers, and none of them changes
\* the heap, the Ended flag or the number of pulls of the source.
C21_Passthrough ==
    /\ [](passed # None => passed[1].value = passed[1].src_value)
    /\ [][calls' = calls
            => /\ passed'[1].op \in {"schema", "collect_exec_stats", "collect_storage_stats",
                                      "take_scanned_range", "can_be_cached"}
               /\ exec'.heap = exec.heap
               /\ exec'.is_ended = exec.is_ended
               /\ src'.pulls = src.pulls
               /\ exec' = exec]_vars

\* C21's case: the scanned range is taken from an executor that holds a row
\* and has pulled the source once, and the source hands over a range.
C21_Witness ==
    /\ passed # None
    /\ passed[1].op = "take_scanned_range"
    /\ passed[1].value = <<0, 2>>
    /\ exec.heap.heap # <<>>
    /\ src.pulls = 1

\* C22: check_supported returns an error for the empty ORDER BY list and for
\* a list with an item whose expression is rejected (the error of the first
\* such item), and Ok exactly for a non-empty list whose expressions are all
\* supported.
C22_CheckSupported ==
    (passed # None /\ passed[1].op = "check_supported")
        => /\ passed[1].value = "Ok"
                <=> /\ passed[1].src_value # <<>>
                    /\ \A k \in 1..Len(passed[1].src_value) : passed[1].src_value[k].err = ""
           /\ passed[1].src_value = <<>> => passed[1].value = "Missing Top N column"
           /\ \A k \in 1..Len(passed[1].src_value) :
                 (/\ passed[1].src_value[k].err # ""
                  /\ \A l \in 1..(k - 1) : passed[1].src_value[l].err = "")
                     => passed[1].value = passed[1].src_value[k].err

\* C22's case: a list of three items of which only the last is rejected.
C22_Witness ==
    /\ passed # None
    /\ passed[1].op = "check_supported"
    /\ Len(passed[1].src_value) = MaxOrderBy
    /\ \A k \in 1..(MaxOrderBy - 1) : passed[1].src_value[k].err = ""
    /\ passed[1].src_value[MaxOrderBy].err = "Unsupported"
    /\ passed[1].value = "Unsupported"

\* C23: a call of next_batch on an Ended executor fails the assertion and
\* changes neither the source nor the executor nor what was returned; and as
\* long as the caller has made no call after a Drain or an error, the
\* assertion has not failed.
C23_Assertion ==
    /\ [](caller_ok => ~panicked)
    /\ [][(calls' = calls + 1 /\ exec.is_ended)
            => /\ panicked'
               /\ ~caller_ok'
               /\ src' = src
               /\ src_result' = None
               /\ exec' = exec
               /\ result' = result
               /\ emitted' = emitted]_vars

\* C23's case: the first call drained a stream of one batch into an output
\* with rows, and the caller called again.
C23_Witness ==
    /\ NormalMode
    /\ calls = 2
    /\ panicked
    /\ ~caller_ok
    /\ Status = "Drain"
    /\ OutRows # <<>>
    /\ src.pulls = 1

\* C24: without bypass every pull of the source carries BATCH_MAX_SIZE,
\* whatever hint the caller passed; under the bypass it carries the caller's
\* hint.
C24_ScanRows ==
    /\ [][(calls' = calls + 1 /\ NormalMode /\ ~exec.is_ended)
            => (src'.hint = Some(BATCH_MAX_SIZE) /\ BATCH_MAX_SIZE \notin ScanHints)]_vars
    /\ [][\A h \in ScanHints :
            (Bypassed /\ calls' = calls + 1 /\ NextBatch(h)) => src'.hint = Some(h)]_vars
    /\ []((src.pulls > 0 /\ ~Bypassed) => src.hint = Some(BATCH_MAX_SIZE))

\* C24's case: two calls without bypass pulled the source with the fixed size
\* and the second returned Remain.
C24_Witness ==
    /\ NormalMode
    /\ calls = 2
    /\ src.pulls = 2
    /\ src.hint = Some(BATCH_MAX_SIZE)
    /\ Status = "Remain"
    /\ exec.heap.heap # <<>>

\* C25: for a caller that makes no call after the executor returned Drain or
\* an error, the source is never pulled after it returned Drain or an error,
\* and no call that follows a failed evaluation pulls it; with and without
\* bypass.
C25_NoPullAfterEnd ==
    /\ [](caller_ok => ~src.pulled_after_end)
    /\ [](caller_ok => (src.ended => Status \notin {"", "Remain"}))
    /\ [][(calls' = calls + 1 /\ (caller_ok' \/ ~Bypassed) /\ (src.ended \/ Status \notin {"", "Remain", "Drain"}))
            => src' = src]_vars

\* C25's case: the second batch failed in a comparison while the source
\* reported Remain; the call after it did not pull the source.
C25_Witness ==
    /\ NormalMode
    /\ calls = 3
    /\ src.pulls = 2
    /\ ~src.ended
    /\ Status = "CmpError"
    /\ panicked

\* Whether handle_next_batch, in the call that made this step, called take_all.
TookAll(fail, ub) == handle_next_batch(exec, src_result'[1], fail, ub).value # None

\* C26: take_all is called only in a call without bypass and with N > 0 whose
\* source batch reports Drain without error; that call ends the executor with
\* an empty heap, no later call reaches take_all, and the heap stays empty;
\* under the bypass and with N = 0 nothing is ever pushed or drained.
C26_TakeAllOnce ==
    /\ [][\A h \in ScanHints :
            (calls' = calls + 1 /\ src_result' # None /\ NormalMode /\ ~exec.is_ended)
                => \A fail \in Fails(exec, src_result'[1]), ub \in UbOutcomes(exec) :
                      (/\ Call(next_batch(exec, h, src_result'[1], fail, ub), src_result'[1], twin)
                       /\ TookAll(fail, ub))
                          => /\ src_result'[1].is_drained = "Drain"
                             /\ result'[1].is_drained = "Drain"
                             /\ exec'.is_ended
                             /\ exec'.heap.heap = <<>>]_vars
    /\ [][exec.is_ended => exec' = exec]_vars
    /\ []((NormalMode /\ Status = "Drain") => (exec.is_ended /\ exec.heap.heap = <<>>))
    /\ []((Bypassed \/ exec.n = 0) => (exec.heap.heap = <<>> /\ exec.arcs = 0))

\* C26's case: the second call drained a heap that held rows of two batches,
\* and a third call was made.
C26_Witness ==
    /\ NormalMode
    /\ calls = 3
    /\ panicked
    /\ Status = "Drain"
    /\ Len(OutRows) = 2
    /\ exec.arcs = 2
    /\ exec.heap.heap = <<>>

\* C27: N and the paging size never change, so an executor forwards every
\* call that pulls the source or none; an executor under the bypass keeps an
\* empty heap, evaluates nothing, pins nothing and returns the source's
\* answer.
C27_BypassForever ==
    /\ [][exec'.n = exec.n /\ exec'.context.cfg = exec.context.cfg]_vars
    /\ [][(calls' = calls + 1 /\ src_result' # None)
            => ((src'.hint # Some(BATCH_MAX_SIZE) /\ result' = src_result' /\ exec' = exec)
                   <=> Bypassed)]_vars
    /\ [](Bypassed
            => /\ exec.heap.heap = <<>>
               /\ exec.eval_columns_buffer_unsafe = <<>>
               /\ exec.arcs = 0
               /\ ~exec.is_ended
               /\ result = src_result)

\* C27's case: two calls under the bypass, both forwarded; the second batch
\* came back with its rows and Remain.
C27_Witness ==
    /\ Bypassed
    /\ calls = 2
    /\ src.pulls = 2
    /\ Status = "Remain"
    /\ OutRows # <<>>
    /\ exec.heap.heap = <<>>

\* C28: without bypass and with N > 0, a batch without logical rows that
\* carries no error is not evaluated: the evaluated-columns buffer is
\* unchanged and nothing is pinned, whatever its physical columns hold; the
\* heap is unchanged when it reports Remain, and when it reports Drain the
\* output is the rows the heap held. While no batch of the stream had a
\* logical row, every call that pulls the source (N > 0, with or without
\* bypass) returns the source's status and no visible row.
C28_NoLogicalRows ==
    /\ [][(/\ calls' = calls + 1
            /\ NormalMode
            /\ ~exec.is_ended
            /\ src_result'[1].logical_rows = <<>>
            /\ ~IsErr(src_result'[1].is_drained))
            => /\ exec'.eval_columns_buffer_unsafe = exec.eval_columns_buffer_unsafe
               /\ exec'.arcs = exec.arcs
               /\ result'[1].is_drained = src_result'[1].is_drained
               /\ IF src_result'[1].is_drained = "Remain"
                  THEN exec'.heap = exec.heap /\ exec'.pinned = exec.pinned /\ EmptyResult(result'[1])
                  ELSE BagOfSeq(LogicalRowsOf(result'[1])) = BagOfSeq(HeapRows(exec))]_vars
    /\ []((exec.n > 0 /\ ~panicked /\ calls >= 1 /\ ~IsErr(SrcStatus) /\ delivered = EmptyBag)
            => /\ Status = SrcStatus
               /\ OutRows = <<>>
               /\ exec.heap.heap = <<>>
               /\ NormalMode => EmptyResult(result[1]))

\* C28's case: a stream of two batches, neither with a logical row, the last
\* with a physical row; the second call returned Drain and no row.
C28_Witness ==
    /\ NormalMode
    /\ calls = 2
    /\ src.pulls = 2
    /\ delivered = EmptyBag
    /\ src_result[1].physical_columns # <<>>
    /\ src_result[1].logical_rows = <<>>
    /\ Status = "Drain"
    /\ EmptyResult(result[1])
    /\ exec.eval_columns_buffer_unsafe = <<>>

\* The logical rows of the batch the source returned in the last call.
LastLogicalRows ==
    IF src_result = None THEN {}
    ELSE { LogicalRowsOf(src_result[1])[i] : i \in 1..Len(src_result[1].logical_rows) }

\* C29: the candidates of a batch are its logical rows, one each and in the
\* order of logical_rows: a heap with room for them holds them appended in
\* that order after the call; in any case the heap gains only logical rows
\* of the batch, and every output row is a logical row of a batch the source
\* returned.
C29_LogicalRows ==
    /\ [][(/\ calls' = calls + 1
            /\ NormalMode
            /\ ~exec.is_ended
            /\ result'[1].is_drained = "Remain")
            => /\ BagOfSeq(HeapRows(exec'))
                    \sqsubseteq (BagOfSeq(HeapRows(exec)) (+) BagOfSeq(LogicalRowsOf(src_result'[1])))
               /\ Len(exec.heap.heap) + Len(src_result'[1].logical_rows) <= exec.n
                    => HeapRows(exec') = HeapRows(exec) \o LogicalRowsOf(src_result'[1])]_vars
    /\ [](\A i \in 1..Len(OutRows) : OutRows[i] \in BagToSet(delivered) \cup LastLogicalRows)

\* C29's case: N = 2 and a drained batch of two physical rows of which only
\* the second is a logical row: the output is that row alone.
C29_Witness ==
    /\ NormalMode
    /\ exec.n = 2
    /\ calls = 1
    /\ Status = "Drain"
    /\ Len(src_result[1].physical_columns) = 2
    /\ src_result[1].logical_rows = <<2>>
    /\ OutRows = <<src_result[1].physical_columns[2]>>
    /\ src_result[1].physical_columns[1] \notin BagToSet(emitted)

\* The logical rows of the last batch of the source when it carried an error.
LastErrorRows ==
    IF src_result # None /\ IsErr(src_result[1].is_drained)
    THEN BagOfSeq(LogicalRowsOf(src_result[1]))
    ELSE EmptyBag

\* C30: the rows returned over all calls are, as a multiset of whole rows, a
\* sub-multiset of the logical rows of the batches the source returned, and
\* each has as many columns as the source schema.
C30_RowsUnmodified ==
    /\ caller_ok => (emitted \sqsubseteq (delivered (+) LastErrorRows))
    /\ \A i \in 1..Len(OutRows), s \in SrcSchemas : Len(OutRows[i]) = Len(s)
    /\ (NormalMode /\ ~IsErr(Status)) => emitted = BagOfSeq(OutRows)

\* C30's case: N = 2, three rows delivered in two batches, two of them
\* returned, from different batches.
C30_Witness ==
    /\ NormalMode
    /\ exec.n = 2
    /\ Status = "Drain"
    /\ src.pulls = 2
    /\ BagCardinality(delivered) = 3
    /\ BagCardinality(emitted) = 2
    /\ Len(src_result[1].logical_rows) = 1
    /\ LogicalRowsOf(src_result[1])[1] \in BagToSet(emitted)
    /\ OutRows[1] # OutRows[2]

\* C31: the Drain result of the normal mode lists every physical row of the
\* returned batch once and in order: logical_rows is the identity sequence
\* over the rows of the batch, so the visible rows are the physical rows, in
\* the sorted order they were drained in.
C31_IdentityRows ==
    (NormalMode /\ Status = "Drain")
        => /\ result[1].logical_rows = [i \in 1..Len(result[1].physical_columns) |-> i]
           /\ OutRows = result[1].physical_columns
           /\ Sorted(result[1].physical_columns)

\* C31's case: the output holds two rows of different batches, the last batch
\* of the source listing only the second of its two physical rows.
C31_Witness ==
    /\ NormalMode
    /\ Status = "Drain"
    /\ src.pulls = 2
    /\ Len(result[1].physical_columns) = 2
    /\ result[1].logical_rows = <<1, 2>>
    /\ src_result[1].logical_rows = <<2>>
    /\ src_result[1].physical_columns[2] = result[1].physical_columns[1]
    /\ RowCmp(OutRows[1], OutRows[2]) < 0

\* C32: without bypass and with N > 0 the result of a call that pulled the
\* source carries the warnings of the batch it pulled, no more and no fewer,
\* also when that batch carries an error or its processing fails; after every
\* call the executor's context holds no pending warning, so none is reported
\* again by a later call; the result of the N = 0 fast path has no warnings.
C32_Warnings ==
    /\ [](exec.context.warnings = 0)
    /\ []((NormalMode /\ src_result # None) => result[1].warnings = src_result[1].warnings)
    /\ []((exec.n = 0 /\ calls >= 1) => result[1].warnings = 0)
    /\ [][(calls' = calls + 1 /\ NormalMode /\ ~exec.is_ended)
            => /\ result'[1].warnings = src_result'[1].warnings
               /\ exec'.context.warnings = 0]_vars

\* C32's case: the first batch came without warning, the second carried a
\* warning and an error; the second result carries the warning and the error.
C32_Witness ==
    /\ NormalMode
    /\ calls = 2
    /\ src.pulls = 2
    /\ SrcStatus = "SrcError"
    /\ src_result[1].warnings = 1
    /\ Status = "SrcError"
    /\ result[1].warnings = 1
    /\ exec.context.warnings = 0
    /\ exec.heap.heap # <<>>

\* C33 as stated: an execution whose last result carries an error has
\* returned no row at all.
C33_Original == Status \notin {"", "Remain", "Drain"} => emitted = EmptyBag

\* C33 amended: when the bypass does not apply, an execution whose last result
\* carries an error has returned no row at all: the result with the error is
\* empty, no earlier result had rows, and the rows the heap holds, those of
\* the failing batch included, stay in the heap of the Ended executor.
C33_NoRowsOnError ==
    /\ []((~Bypassed /\ Status \notin {"", "Remain", "Drain"})
            => (emitted = EmptyBag /\ EmptyResult(result[1]) /\ exec.is_ended))
    /\ [][(~Bypassed /\ Status \notin {"", "Remain", "Drain"})
            => (emitted' = emitted /\ exec'.heap = exec.heap /\ result' = result)]_vars

\* C33's case: N = 2, the heap held a row of the first batch, the first row of
\* the second batch was pushed and the comparison of its second row failed.
C33_Witness ==
    /\ NormalMode
    /\ exec.n = 2
    /\ calls = 2
    /\ Status = "CmpError"
    /\ Len(src_result[1].logical_rows) = 2
    /\ Len(exec.heap.heap) = 2
    /\ exec.heap.heap[1].source_data = 1
    /\ exec.heap.heap[2].source_data = 2
    /\ emitted = EmptyBag

\* C34: when the source reports Drain or an error after finitely many batches
\* and the caller calls as long as it receives Remain, the executor
\* eventually returns Drain or an error. Without bypass and with N > 0 the
\* executor has been called as often as the source was pulled, and a call
\* returns Drain or an error exactly when the batch it pulled reports Drain
\* or an error or the processing of that batch fails: the first such batch
\* ends the execution, on the call of the same index.
C34_Terminates ==
    /\ <>(Status \notin {"", "Remain"})
    /\ [](NormalMode => calls = src.pulls)
    /\ [](NormalMode => (src.ended => Status \notin {"", "Remain"}))
    /\ [][(calls' = calls + 1 /\ NormalMode)
            => /\ src'.pulls = calls'
               /\ result'[1].is_drained # "Remain"
                    <=> \/ src_result'[1].is_drained # "Remain"
                        \/ result'[1].is_drained \in {"DecodeError", "EvalError", "CmpError"}]_vars

\* C34's case: the source reported Remain and then Drain, and the second call
\* of the executor returned Drain.
C34_Witness ==
    /\ NormalMode
    /\ calls = 2
    /\ src.pulls = 2
    /\ SrcStatus = "Drain"
    /\ Status = "Drain"
    /\ exec.is_ended
    /\ BagCardinality(delivered) >= 2

\* C35: after every call the number of source batches the executor still
\* retains is at most the number of rows in the heap, hence at most N, however
\* many batches the source has delivered; once the heap is drained none is
\* retained.
C35_RetainedBound ==
    /\ Cardinality(DOMAIN exec.pinned) <= Len(exec.heap.heap)
    /\ Len(exec.heap.heap) <= exec.n
    /\ Cardinality(DOMAIN exec.pinned) <= exec.n
    /\ exec.heap.heap = <<>> => exec.pinned = <<>>

\* C35's case: N = 1 and two batches with rows were processed: one batch is
\* retained, the other released.
C35_Witness ==
    /\ NormalMode
    /\ exec.n = 1
    /\ calls = 2
    /\ exec.arcs = 2
    /\ Status = "Remain"
    /\ BagCardinality(delivered) = 3
    /\ Cardinality(DOMAIN exec.pinned) = 1
    /\ Len(exec.heap.heap) = 1

Buffer == exec.eval_columns_buffer_unsafe

\* The slice of the buffer that row r of the heap reads its keys from lies
\* within the buffer and holds, key by key, the column evaluated from the
\* row's own batch.
OwnSlice(r) ==
    /\ r.eval_columns_offset + Len(exec.order_exprs) <= Len(Buffer)
    /\ \A k \in 1..Len(exec.order_exprs) :
          /\ Buffer[r.eval_columns_offset + k].source_data = r.source_data
          /\ Buffer[r.eval_columns_offset + k].col = exec.order_exprs[k]

\* C37: every row of the heap reads its keys from a slice of the
\* evaluated-columns buffer that lies within the buffer and holds the columns
\* evaluated from the row's own batch; the offset of a row pushed by a call is
\* the length the buffer had when the call began to evaluate its batch; and
\* the buffer only grows at its end.
C37_ValidSlice ==
    /\ [](\A i \in HeapIdx : OwnSlice(exec.heap.heap[i]))
    /\ [][/\ Len(Buffer) <= Len(exec'.eval_columns_buffer_unsafe)
          /\ SubSeq(exec'.eval_columns_buffer_unsafe, 1, Len(Buffer)) = Buffer]_vars
    /\ [][\A i \in 1..Len(exec'.heap.heap) :
            exec'.heap.heap[i].source_data > exec.arcs
                => exec'.heap.heap[i].eval_columns_offset = Len(Buffer)]_vars

\* C37's case: two keys, the heap holds a row of each of two batches, the
\* second reading the slice that follows the first batch's.
C37_Witness ==
    /\ NormalMode
    /\ Len(exec.order_exprs) = 2
    /\ Status = "Remain"
    /\ Len(exec.heap.heap) = 2
    /\ exec.heap.heap[1].source_data = 1
    /\ exec.heap.heap[1].eval_columns_offset = 0
    /\ exec.heap.heap[2].source_data = 2
    /\ exec.heap.heap[2].eval_columns_offset = 2
    /\ Len(Buffer) = 4

\* C38: no row is pushed into the heap of an executor with N = 0: such an
\* executor pulls no batch, pins and evaluates none and keeps an empty heap;
\* every call that processes a batch is made with N >= 1, every push onto a
\* full heap finds a worst row in it, and the only panic is the assertion on
\* an Ended executor.
C38_NoPushAtZero ==
    /\ [](exec.n = 0 => (src_result = None /\ exec.arcs = 0 /\ exec.heap.heap = <<>> /\ Buffer = <<>>))
    /\ [](exec.heap.n = exec.n)
    /\ [][exec'.arcs > exec.arcs => exec.n >= 1]_vars
    /\ [][(calls' = calls + 1 /\ NormalMode /\ ~exec.is_ended /\ ~IsErr(src_result'[1].is_drained))
            => \A k \in 1..Len(src_result'[1].logical_rows), ub \in UbOutcomes(exec) :
                  Len(HeapAfterRows(src_result'[1], k - 1, ub)) >= exec.heap.n
                      => HeapAfterRows(src_result'[1], k - 1, ub) # <<>>]_vars
    /\ [][panicked' => exec.is_ended]_vars

\* C38's case: N = 1, the heap was full when the row of the second batch was
\* pushed, and the row, no better than the worst, was dropped.
C38_Witness ==
    /\ NormalMode
    /\ exec.n = 1
    /\ calls = 2
    /\ exec.arcs = 2
    /\ ~panicked
    /\ Status = "Remain"
    /\ Len(exec.heap.heap) = 1
    /\ exec.heap.heap[1].source_data = 1

\* C39: an executor that new returns has as many result field types and as
\* many descending flags as order expressions, and no call changes any of
\* the three lists: the keys, their field types and their directions are the
\* same for every comparison of the executor's life.
C39_KeyMetadata ==
    /\ [](/\ Len(exec.order_exprs_field_type) = Len(exec.order_exprs)
          /\ Len(exec.order_is_desc) = Len(exec.order_exprs))
    /\ [][/\ exec'.order_exprs = exec.order_exprs
          /\ exec'.order_exprs_field_type = exec.order_exprs_field_type
          /\ exec'.order_is_desc = exec.order_is_desc]_vars

\* C39's case: an executor of two keys, the first descending and unsigned,
\* after two batches whose rows it holds.
C39_Witness ==
    /\ exec.order_exprs = <<1, 2>>
    /\ exec.order_is_desc = <<TRUE, FALSE>>
    /\ exec.order_exprs_field_type = <<[unsigned |-> TRUE], [unsigned |-> FALSE]>>
    /\ calls = 2
    /\ exec.arcs = 2
    /\ Len(exec.heap.heap) = 2

====
